---- MODULE Spec2Model ----
(***************************************************************************)
(* rootwarp/vinculum: the contract client (ReadContract, validateInputs,   *)
(* encodeData, parseResponse) and ContractABI.MethodID.                    *)
(*                                                                         *)
(* A Go string is a sequence of bytes, so a string is modelled as a        *)
(* sequence of byte values 0..255. A *big.Int is a sign and a magnitude,   *)
(* the magnitude a big-endian sequence of base-16 limbs with no leading    *)
(* zero limb (math/big keeps little-endian machine words; the limb width   *)
(* does not change any result).                                            *)
(***************************************************************************)
EXTENDS Integers, Sequences, FiniteSets, TLC

VARIABLES pc, abi, args, data, sent, resp, result, err

vars == <<pc, abi, args, data, sent, resp, result, err>>

(***************************************************************************)
(* Bounds of the model.                                                    *)
(***************************************************************************)
\* the longest input list of an ABI entry
MaxInputs == 2
\* the longest magnitude, in hex digits, of the enumerated small integers
MaxDigits == 2
\* the longest enumerated string argument, in bytes
MaxStrLen == 1

(***************************************************************************)
(* Text.                                                                   *)
(***************************************************************************)
\* the printable ASCII characters, in code order from 32 (space) to 126 (the
\* grave accent, code 96, is spelled out: it cannot be written in a string)
Ascii ==
  << " ", "!", "\"", "#", "$", "%", "&", "'", "(", ")", "*", "+", ",", "-", ".", "/",
     "0", "1", "2", "3", "4", "5", "6", "7", "8", "9", ":", ";", "<", "=", ">", "?",
     "@", "A", "B", "C", "D", "E", "F", "G", "H", "I", "J", "K", "L", "M", "N", "O",
     "P", "Q", "R", "S", "T", "U", "V", "W", "X", "Y", "Z", "[", "\\", "]", "^", "_",
     "grave", "a", "b", "c", "d", "e", "f", "g", "h", "i", "j", "k", "l", "m", "n", "o",
     "p", "q", "r", "s", "t", "u", "v", "w", "x", "y", "z", "{", "|", "}", "~" >>

\* the byte of an ASCII character
Ord == [c \in {Ascii[i] : i \in 1..Len(Ascii)} |->
          31 + (CHOOSE i \in 1..Len(Ascii) : Ascii[i] = c)]

\* a string literal: the bytes of the characters cs
S(cs) == [i \in 1..Len(cs) |-> Ord[cs[i]]]

\* a + b + ... for strings
Concat(ss) ==
  LET RECURSIVE cat(_)
      cat(i) == IF i > Len(ss) THEN << >> ELSE ss[i] \o cat(i + 1)
  IN cat(1)

\* strings.TrimPrefix(s, prefix)
TrimPrefix(s, prefix) ==
  IF Len(s) >= Len(prefix) /\ SubSeq(s, 1, Len(prefix)) = prefix
  THEN SubSeq(s, Len(prefix) + 1, Len(s))
  ELSE s

\* strings.Join(elems, sep)
Join(elems, sep) ==
  LET RECURSIVE join(_)
      join(i) == IF i > Len(elems) THEN << >>
                 ELSE IF i = Len(elems) THEN elems[i]
                 ELSE elems[i] \o sep \o join(i + 1)
  IN join(1)

\* n copies of the byte b
Repeat(b, n) == [i \in 1..n |-> b]

\* the padding on the right of s instead of its left
PadLeft0_Right(s, width) ==
  IF Len(s) >= width THEN s ELSE s \o Repeat(Ord["0"], width - Len(s))

\* fmt.Sprintf("%0<width>s", s): s with zeros on its left up to width
\* characters, never cut (the strings of the model are ASCII, one byte a rune)
PadLeft0(s, width) ==
  IF Len(s) >= width THEN s ELSE Repeat(Ord["0"], width - Len(s)) \o s

(***************************************************************************)
(* encoding/hex                                                            *)
(***************************************************************************)
\* the digits hex.EncodeToString and big.Int.Text write
hextable == S(<< "0", "1", "2", "3", "4", "5", "6", "7", "8", "9",
                 "a", "b", "c", "d", "e", "f" >>)

\* hex.EncodeToString(b): two lowercase digits per byte
EncodeToString(b) ==
  [i \in 1..(2 * Len(b)) |->
     IF i % 2 = 1 THEN hextable[(b[(i + 1) \div 2] \div 16) + 1]
                  ELSE hextable[(b[i \div 2] % 16) + 1]]

\* the value of a hex digit character, -1 when it is none
fromHexChar(c) ==
  IF c >= Ord["0"] /\ c <= Ord["9"] THEN c - Ord["0"]
  ELSE IF c >= Ord["a"] /\ c <= Ord["f"] THEN c - Ord["a"] + 10
  ELSE IF c >= Ord["A"] /\ c <= Ord["F"] THEN c - Ord["A"] + 10
  ELSE -1

\* hex.DecodeString(s): the bytes, or an error for an odd length or a
\* character that is no hex digit
DecodeString(s) ==
  IF Len(s) % 2 = 1 \/ \E i \in 1..Len(s) : fromHexChar(s[i]) = -1
  THEN [ok |-> FALSE, bytes |-> << >>]
  ELSE [ok |-> TRUE,
        bytes |-> [i \in 1..(Len(s) \div 2) |->
                     16 * fromHexChar(s[2 * i - 1]) + fromHexChar(s[2 * i])]]

(***************************************************************************)
(* math/big                                                                *)
(***************************************************************************)
\* nat.norm: the magnitude without its leading zero limbs
norm(ds) ==
  IF \A i \in 1..Len(ds) : ds[i] = 0 THEN << >>
  ELSE SubSeq(ds, CHOOSE i \in 1..Len(ds) :
                    ds[i] # 0 /\ \A j \in 1..(i - 1) : ds[j] = 0,
              Len(ds))

\* the *big.Int of magnitude ds (zero has no sign)
MkInt(neg, ds) == [neg |-> neg /\ norm(ds) # << >>, abs |-> norm(ds)]

\* big.NewInt(n), n >= 0
NewInt(n) ==
  LET RECURSIVE limbs(_)
      limbs(k) == IF k = 0 THEN << >> ELSE Append(limbs(k \div 16), k % 16)
  IN [neg |-> FALSE, abs |-> limbs(n)]

\* x.Text(16): lowercase digits, a leading "-" for a negative, "0" for zero
Text16(x) ==
  IF x.abs = << >> THEN S(<< "0" >>)
  ELSE (IF x.neg THEN S(<< "-" >>) ELSE << >>)
       \o [i \in 1..Len(x.abs) |-> hextable[x.abs[i] + 1]]

\* z.SetString(s, 16): an optional sign, then hex digits of either case up to
\* the end of s. ok is false for an empty string, a sign alone or any other
\* character, and the value of z is then undefined (val is not to be read).
SetString16(s) ==
  LET signed == Len(s) > 0 /\ s[1] \in {Ord["+"], Ord["-"]}
      digits == IF signed THEN SubSeq(s, 2, Len(s)) ELSE s
  IN IF digits = << >> \/ \E i \in 1..Len(digits) : fromHexChar(digits[i]) = -1
     THEN [ok |-> FALSE, val |-> MkInt(FALSE, << >>)]
     ELSE [ok |-> TRUE,
           val |-> MkInt(signed /\ s[1] = Ord["-"],
                         [i \in 1..Len(digits) |-> fromHexChar(digits[i])])]

\* the magnitude ds as big-endian words of 16 bits (nat's words, narrower)
toWords(ds) ==
  LET padded == Repeat(0, (4 - (Len(ds) % 4)) % 4) \o ds
  IN [i \in 1..(Len(padded) \div 4) |->
        padded[4 * i - 3] * 4096 + padded[4 * i - 2] * 256
        + padded[4 * i - 1] * 16 + padded[4 * i]]

\* nat.divW: the words ws divided by the small d, quotient and remainder
divW(ws, d) ==
  LET RECURSIVE step(_, _, _)
      step(i, q, r) ==
        IF i > Len(ws) THEN [q |-> q, r |-> r]
        ELSE step(i + 1, Append(q, (r * 65536 + ws[i]) \div d), (r * 65536 + ws[i]) % d)
  IN step(1, << >>, 0)

\* the decimal digits of n < 10000: all four of them, or without leading zeros
decimal4(n, all) ==
  LET four == << Ord["0"] + (n \div 1000), Ord["0"] + ((n \div 100) % 10),
                 Ord["0"] + ((n \div 10) % 10), Ord["0"] + (n % 10) >>
  IN IF all THEN four
     ELSE IF n >= 1000 THEN four
     ELSE IF n >= 100 THEN SubSeq(four, 2, 4)
     ELSE IF n >= 10 THEN SubSeq(four, 3, 4)
     ELSE SubSeq(four, 4, 4)

\* x.String(): the decimal text, four digits per division by 10000
String10(x) ==
  LET RECURSIVE conv(_)
      conv(ws) == LET d == divW(ws, 10000)
                      q == norm(d.q)
                  IN IF q = << >> THEN decimal4(d.r, FALSE)
                     ELSE conv(q) \o decimal4(d.r, TRUE)
  IN IF x.abs = << >> THEN S(<< "0" >>)
     ELSE (IF x.neg THEN S(<< "-" >>) ELSE << >>) \o conv(toWords(x.abs))

\* x.IsUint64(): not negative and at most 64 bits
IsUint64(x) == ~x.neg /\ Len(x.abs) <= 16

\* x.Uint64() > n for a small n, given IsUint64(x)
Uint64Above(x, n) ==
  LET RECURSIVE val(_)
      val(i) == IF i = 0 THEN 0 ELSE 16 * val(i - 1) + x.abs[i]
  IN Len(x.abs) > 6 \/ val(Len(x.abs)) > n

\* x.Int64() of an x that fits an int64 and the model's integers; fits is
\* false when x does not fit an int64, where Int64's result is undefined
Int64(x) ==
  LET RECURSIVE val(_)
      val(i) == IF i = 0 THEN 0 ELSE 16 * val(i - 1) + x.abs[i]
      fits == Len(x.abs) < 16 \/ (Len(x.abs) = 16 /\ x.abs[1] < 8)
      big == Len(x.abs) > 6
  IN [fits |-> fits,
      big |-> big,
      n |-> IF big THEN 0 ELSE IF x.neg THEN 0 - val(Len(x.abs)) ELSE val(Len(x.abs))]

(***************************************************************************)
(* ContractABI and MethodID                                                *)
(***************************************************************************)
\* the Solidity type tags and other words of the program
TAddress == S(<< "a", "d", "d", "r", "e", "s", "s" >>)
TUint256 == S(<< "u", "i", "n", "t", "2", "5", "6" >>)
TUint8 == S(<< "u", "i", "n", "t", "8" >>)
TBool == S(<< "b", "o", "o", "l" >>)
TString == S(<< "s", "t", "r", "i", "n", "g" >>)
TBytes == S(<< "b", "y", "t", "e", "s" >>)
TTuple == S(<< "t", "u", "p", "l", "e" >>)
TUintArray == S(<< "u", "i", "n", "t", "2", "5", "6", "[", "]" >>)
KFunction == S(<< "f", "u", "n", "c", "t", "i", "o", "n" >>)
KEvent == S(<< "e", "v", "e", "n", "t" >>)

\* an ABIParameter
Param(name, type) == [Name |-> name, Type |-> type]

\* a ContractABI entry (the fields the contract client and MethodID read,
\* and StateMutability as one of those they do not)
Entry(type, name, inputs, outputs, mut) ==
  [Type |-> type, Name |-> name, Inputs |-> inputs, Outputs |-> outputs,
   StateMutability |-> mut]

\* crypto.Keccak256(b): the 32-byte digest. The hash is go-ethereum's; it is
\* represented by a fixed function of the input bytes that mixes every byte
\* and its position into each digest byte.
Keccak256(b) ==
  LET RECURSIVE mix(_, _)
      mix(i, h) == IF i > Len(b) THEN h
                   ELSE mix(i + 1, (h * 31 + b[i] * (i + 6) + 1) % 65521)
      h0 == mix(1, 7 + Len(b))
  IN [k \in 1..32 |-> (((h0 + k * 7919) * (2 * k + 129)) \div 5) % 256]

\* MethodID with the signature built from the parameter names
MethodID_ByName(c) ==
  IF c.Type # KFunction
  THEN [val |-> << >>, err |-> "cannot get method ID for non-function type"]
  ELSE LET inputNames == [i \in 1..Len(c.Inputs) |-> c.Inputs[i].Name]
           signature == Concat(<< c.Name, S(<< "(" >>),
                                  Join(inputNames, S(<< "," >>)), S(<< ")" >>) >>)
           hash == Keccak256(signature)
       IN [val |-> EncodeToString(SubSeq(hash, 1, 4)), err |-> "nil"]

\* c.MethodID(): the first 4 bytes of the hash of name(type1,type2,...), in hex
MethodID(c) ==
  IF c.Type # KFunction
  THEN [val |-> << >>, err |-> "cannot get method ID for non-function type"]
  ELSE LET inputTypes == [i \in 1..Len(c.Inputs) |-> c.Inputs[i].Type]
           signature == Concat(<< c.Name, S(<< "(" >>),
                                  Join(inputTypes, S(<< "," >>)), S(<< ")" >>) >>)
           hash == Keccak256(signature)
       IN [val |-> EncodeToString(SubSeq(hash, 1, 4)), err |-> "nil"]

(***************************************************************************)
(* The contract client                                                     *)
(***************************************************************************)
\* the values of an argument mapping (interface{}): a string, a *big.Int, a
\* bool, or a value of another kind (an int); nil is what a map yields for a
\* key it does not hold
StrArg(s) == [kind |-> "string", str |-> s, int |-> MkInt(FALSE, << >>), bool |-> FALSE]
IntArg(x) == [kind |-> "*big.Int", str |-> << >>, int |-> x, bool |-> FALSE]
BoolArg(b) == [kind |-> "bool", str |-> << >>, int |-> MkInt(FALSE, << >>), bool |-> b]
OtherArg == [kind |-> "int", str |-> << >>, int |-> MkInt(FALSE, << >>), bool |-> FALSE]
NilArg == [kind |-> "nil", str |-> << >>, int |-> MkInt(FALSE, << >>), bool |-> FALSE]

\* args[name]
Lookup(a, name) == IF name \in DOMAIN a THEN a[name] ELSE NilArg

\* validateInput without the default case of its switch
validateInput_NoDefault(input, a) ==
  IF input.Name \notin DOMAIN a THEN "missing argument for input"
  ELSE IF input.Type = TAddress /\ a[input.Name].kind # "string"
       THEN "invalid type for input: expected address string"
  ELSE IF input.Type = TUint256 /\ a[input.Name].kind # "*big.Int"
       THEN "invalid type for input: expected *big.Int"
  ELSE IF input.Type = TBool /\ a[input.Name].kind # "bool"
       THEN "invalid type for input: expected bool"
  ELSE IF input.Type = TString /\ a[input.Name].kind # "string"
       THEN "invalid type for input: expected string"
  ELSE "nil"

\* the check validateInputs makes of one input: the error, or "nil"
validateInput(input, a) ==
  IF input.Name \notin DOMAIN a THEN "missing argument for input"
  ELSE IF input.Type = TAddress
       THEN IF a[input.Name].kind = "string" THEN "nil"
            ELSE "invalid type for input: expected address string"
  ELSE IF input.Type = TUint256
       THEN IF a[input.Name].kind = "*big.Int" THEN "nil"
            ELSE "invalid type for input: expected *big.Int"
  ELSE IF input.Type = TBool
       THEN IF a[input.Name].kind = "bool" THEN "nil"
            ELSE "invalid type for input: expected bool"
  ELSE IF input.Type = TString
       THEN IF a[input.Name].kind = "string" THEN "nil"
            ELSE "invalid type for input: expected string"
  ELSE "unsupported input type"

\* c.validateInputs(abi, args): the error of the first input that fails, "nil"
\* when the count matches and none fails
validateInputs(c, a) ==
  LET RECURSIVE loop(_)
      loop(i) == IF i > Len(c.Inputs) THEN "nil"
                 ELSE IF validateInput(c.Inputs[i], a) # "nil"
                      THEN validateInput(c.Inputs[i], a)
                 ELSE loop(i + 1)
  IN IF Cardinality(DOMAIN a) # Len(c.Inputs) THEN "argument count mismatch"
     ELSE loop(1)

\* what a call returns: a value and an error ("nil" for none), or a panic
Ok(v) == [val |-> v, err |-> "nil", panic |-> FALSE]
Fail(e) == [val |-> << >>, err |-> e, panic |-> FALSE]
Panic(e) == [val |-> << >>, err |-> e, panic |-> TRUE]

\* the string case of encodeData: offset and length words, then the bytes of
\* the string padded with zeros to a multiple of 32
encodeString(str, nInputs) ==
  LET offset == NewInt(32 * nInputs)
      length == NewInt(Len(str))
      paddedLen == ((Len(str) + 31) \div 32) * 32
      paddedStr == str \o Repeat(0, paddedLen - Len(str))
  IN PadLeft0(Text16(offset), 64) \o PadLeft0(Text16(length), 64)
     \o EncodeToString(paddedStr)

\* what encodeData appends for one input; a type assertion on a value of
\* another kind panics
encodeInput(input, arg, nInputs) ==
  IF input.Type = TAddress
  THEN IF arg.kind # "string" THEN Panic("interface conversion")
       ELSE Ok(PadLeft0(TrimPrefix(arg.str, S(<< "0", "x" >>)), 64))
  ELSE IF input.Type = TUint256
  THEN IF arg.kind # "*big.Int" THEN Panic("interface conversion")
       ELSE Ok(PadLeft0(Text16(arg.int), 64))
  ELSE IF input.Type = TBool
  THEN IF arg.kind # "bool" THEN Panic("interface conversion")
       ELSE IF arg.bool THEN Ok(PadLeft0(S(<< "1" >>), 64))
       ELSE Ok(PadLeft0(S(<< "0" >>), 64))
  ELSE IF input.Type = TString
  THEN IF arg.kind # "string" THEN Panic("interface conversion")
       ELSE Ok(encodeString(arg.str, nInputs))
  ELSE Fail("unsupported type for encoding")

\* c.encodeData(abi, args): "0x", the method ID, then each input's encoding in
\* declaration order
encodeData(c, a) ==
  LET methodID == MethodID(c)
      RECURSIVE loop(_, _)
      loop(i, d) ==
        IF i > Len(c.Inputs) THEN Ok(d)
        ELSE LET encoded == encodeInput(c.Inputs[i], Lookup(a, c.Inputs[i].Name),
                                        Len(c.Inputs))
             IN IF encoded.err # "nil" THEN encoded
                ELSE loop(i + 1, d \o encoded.val)
  IN IF methodID.err # "nil" THEN Fail("failed to get method ID")
     ELSE loop(1, S(<< "0", "x" >>) \o methodID.val)

\* string(bytes) of the string case of parseResponse: resp[128:128+n*2]
\* decoded from hex; the slice expression panics when its bounds are not
\* 128 <= 128+n*2 <= len(resp)
parseString(r, undef) ==
  LET parsed == SetString16(SubSeq(r, 65, 128))
      strLen == IF parsed.ok THEN parsed.val ELSE undef.int
      i64 == Int64(strLen)
      n == IF i64.fits THEN i64.n ELSE undef.i64
      decoded == DecodeString(SubSeq(r, 129, 128 + n * 2))
  IN IF Len(r) < 128 THEN Fail("invalid string data length")
     ELSE IF (i64.fits /\ i64.big) \/ n < 0 \/ 128 + n * 2 > Len(r)
          THEN Panic("slice bounds out of range")
     ELSE IF ~decoded.ok THEN Fail("failed to decode string data")
     ELSE Ok(decoded.bytes)

\* c.parseResponse(resp, abi). undef gives what the program reads where the
\* library leaves a value undefined: the *big.Int after a failed SetString
\* (int) and the Int64 of a value that fits no int64 (i64).
parseResponse(r, c, undef) ==
  LET parsed == SetString16(r)
      value == IF parsed.ok THEN parsed.val ELSE undef.int
      type == c.Outputs[1].Type
  IN IF Len(c.Outputs) # 1 THEN Fail("multiple outputs not yet supported")
     ELSE IF type = TUint256 THEN Ok(String10(value))
     ELSE IF type = TString THEN parseString(r, undef)
     ELSE IF type = TBool
          THEN IF Len(r) < 64 THEN Fail("invalid bool data length")
               ELSE IF r[64] = Ord["1"] THEN Ok(S(<< "t", "r", "u", "e" >>))
               ELSE Ok(S(<< "f", "a", "l", "s", "e" >>))
     ELSE IF type = TAddress
          THEN IF Len(r) < 64 THEN Fail("invalid address data length")
               ELSE Ok(S(<< "0", "x" >>) \o SubSeq(r, 25, 64))
     ELSE IF type = TUint8
          THEN IF Len(r) < 64 THEN Fail("invalid uint8 data length")
               ELSE IF ~IsUint64(value) \/ Uint64Above(value, 255)
                    THEN Fail("uint8 overflow")
               ELSE Ok(String10(value))
     ELSE Fail("unsupported output type")

(***************************************************************************)
(* The inputs the specifications draw from.                                *)
(***************************************************************************)
\* the sequences over set of length at most n
SeqsUpTo(set, n) == UNION {[1..k -> set] : k \in 0..n}

\* parameter names: none (an unnamed parameter) and "a"; "x" is a key no
\* entry of the model declares
NoName == << >>
ParamNames == {NoName, S(<< "a" >>)}
ArgKeys == ParamNames \cup {S(<< "x" >>)}

\* the declared types: the four validateInputs knows, uint8 and bytes
InputTypes == {TAddress, TUint256, TBool, TString, TUint8, TBytes}

\* the entries ReadContract is called with
CallEntries ==
  {Entry(t, S(<< "f" >>), ins, << Param(NoName, TUint256) >>, "view") :
     t \in {KFunction, KEvent},
     ins \in SeqsUpTo({Param(n, ty) : n \in ParamNames, ty \in InputTypes}, MaxInputs)}

\* the values a caller puts in an argument mapping
CallValues == {StrArg(S(<< "a" >>)), IntArg(NewInt(5)), BoolArg(TRUE), OtherArg}

\* the argument mappings: any set of keys, any value for each
CallArgs == UNION {[ks -> CallValues] : ks \in SUBSET ArgKeys}

\* a 32-byte word of hex text holding the number n
Word(n) == PadLeft0(Text16(NewInt(n)), 64)

\* what the node does with a request: the transport fails, the status is not
\* 200, the body cannot be read or is no JSON, or the body carries a result
RpcFailures == {"failed to make RPC call", "unexpected status code",
                "failed to read response body", "failed to unmarshal response"}
RpcResults == {S(<< "0", "x" >>) \o Word(1), S(<< "0", "x" >>), Word(255) \o Word(0)}

\* the values the program may read where the library leaves them undefined
Undefined == {[int |-> NewInt(0), i64 |-> -1], [int |-> NewInt(300), i64 |-> 3]}

(***************************************************************************)
(* ReadContract, step by step                                              *)
(***************************************************************************)
Init ==
  /\ pc = "start"
  /\ abi \in CallEntries
  /\ args \in CallArgs
  /\ data = << >>
  /\ sent = << >>
  /\ resp = << >>
  /\ result = << >>
  /\ err = "nil"

\* return "", err
ReturnError(e) ==
  /\ pc' = "done"
  /\ result' = << >>
  /\ err' = e

\* lines 27-29: validateInputs, and the return of its error
Validate ==
  /\ pc = "start"
  /\ IF validateInputs(abi, args) # "nil"
     THEN ReturnError(validateInputs(abi, args))
     ELSE pc' = "validated" /\ UNCHANGED <<result, err>>
  /\ UNCHANGED <<abi, args, data, sent, resp>>

\* lines 31-34: encodeData, and the return of its error
Encode ==
  /\ pc = "validated"
  /\ LET encoded == encodeData(abi, args)
     IN IF encoded.panic
        THEN pc' = "panicked" /\ err' = encoded.err /\ UNCHANGED <<data, result>>
        ELSE IF encoded.err # "nil"
        THEN ReturnError(encoded.err) /\ UNCHANGED data
        ELSE pc' = "encoded" /\ data' = encoded.val /\ UNCHANGED <<result, err>>
  /\ UNCHANGED <<abi, args, sent, resp>>

\* lines 36-75: the eth_call request is posted; the call fails, or the body's
\* result is kept
Post ==
  /\ pc = "encoded"
  /\ sent' = Append(sent, data)
  /\ \/ \E e \in RpcFailures : ReturnError(e) /\ UNCHANGED resp
     \/ \E r \in RpcResults :
          /\ pc' = "responded"
          /\ resp' = r
          /\ UNCHANGED <<result, err>>
  /\ UNCHANGED <<abi, args, data>>

\* lines 77-78: the result without its "0x" is parsed and returned
Parse ==
  /\ pc = "responded"
  /\ \E u \in Undefined :
       LET parsed == parseResponse(TrimPrefix(resp, S(<< "0", "x" >>)), abi, u)
       IN /\ pc' = IF parsed.panic THEN "panicked" ELSE "done"
          /\ result' = parsed.val
          /\ err' = parsed.err
  /\ UNCHANGED <<abi, args, data, sent, resp>>

Next == Validate \/ Encode \/ Post \/ Parse

Spec == Init /\ [][Next]_vars

(***************************************************************************)
(* encodeData on the mappings validateInputs accepts                       *)
(***************************************************************************)
\* the name of the i-th parameter of an entry with distinct names: a, b, ...
NameAt(i) == << Ord["a"] + i - 1 >>

\* the address of the repository's tests, 40 hex digits of both cases
TestAddress ==
  S(<< "0", "d", "5", "0", "0", "B", "1", "d", "8", "E", "8", "e", "F", "3", "1", "E",
       "2", "1", "C", "9", "9", "d", "1", "D", "b", "9", "A", "6", "4", "4", "4", "d",
       "3", "A", "D", "f", "1", "2", "7", "0" >>)

\* 2^256 - 1 and 2^256
MaxUint256 == MkInt(FALSE, Repeat(15, 64))
TwoTo256 == MkInt(FALSE, << 1 >> \o Repeat(0, 64))

\* strings a caller passes as an address: 40 hex digits with and without
\* "0x", and strings that are no address
AddressStrings ==
  {S(<< "0", "x" >>) \o TestAddress, TestAddress, S(<< "0", "x", "1" >>),
   S(<< "z", "z" >>), TestAddress \o TestAddress}

\* integers a caller passes as a uint256 or a uint8
BigInts ==
  {NewInt(0), NewInt(5), NewInt(255), NewInt(256), MaxUint256, TwoTo256,
   MkInt(TRUE, << 1 >>)}

\* strings a caller passes as a string: short ones, and one byte under and
\* over the 32-byte boundary
TextStrings ==
  {Repeat(Ord["h"], n) : n \in 0..MaxStrLen} \cup {Repeat(Ord["h"], n) : n \in {32, 33}}

\* the values of the runtime kind validateInputs asks for a type
ValuesOf(type) ==
  IF type = TAddress THEN {StrArg(s) : s \in AddressStrings}
  ELSE IF type = TBool THEN {BoolArg(b) : b \in BOOLEAN}
  ELSE IF type = TString THEN {StrArg(s) : s \in TextStrings}
  ELSE {IntArg(x) : x \in BigInts}

\* the types of the inputs of the entries that are encoded
EncodeTypes == {TAddress, TUint256, TBool, TString, TUint8}

\* a function entry with inputs of the types tys, named a, b, ...
FunctionOf(tys, outputs) ==
  Entry(KFunction, S(<< "f" >>), [i \in 1..Len(tys) |-> Param(NameAt(i), tys[i])],
        outputs, "view")

\* a mapping with the value vs[i] for the i-th input
ArgsOf(vs) == [k \in {NameAt(i) : i \in 1..Len(vs)} |->
                 vs[CHOOSE i \in 1..Len(vs) : NameAt(i) = k]]

InitEncode ==
  /\ pc = "start"
  /\ \E tys \in SeqsUpTo(EncodeTypes, MaxInputs) :
       /\ abi = FunctionOf(tys, << Param(NoName, TUint256) >>)
       /\ \E vs \in [1..Len(tys) -> UNION {ValuesOf(t) : t \in EncodeTypes}] :
            /\ \A i \in 1..Len(tys) : vs[i] \in ValuesOf(tys[i])
            /\ args = ArgsOf(vs)
  /\ data = << >>
  /\ sent = << >>
  /\ resp = << >>
  /\ result = << >>
  /\ err = "nil"

NextEncode == Validate \/ Encode

SpecEncode == InitEncode /\ [][NextEncode]_vars

(***************************************************************************)
(* Encoding a value and decoding it again                                  *)
(***************************************************************************)
\* the integers 0 <= v < 2^256 that are encoded and decoded: every one of at
\* most MaxDigits hex digits, and the largest ones
RoundTripInts ==
  {MkInt(FALSE, ds) : ds \in SeqsUpTo(0..15, MaxDigits)}
    \cup {MaxUint256, MkInt(FALSE, << 8 >> \o Repeat(0, 63)),
          MkInt(FALSE, << 1 >> \o Repeat(0, 63)), MkInt(FALSE, Repeat(9, 40))}

\* 20-byte addresses as 40 hex digits of both cases: the test address with
\* its first MaxDigits digits replaced
RoundTripAddresses ==
  {ds \o SubSeq(TestAddress, Len(ds) + 1, 40) :
     ds \in [1..MaxDigits -> {Ord["0"], Ord["9"], Ord["a"], Ord["F"]}]}

\* the static types and the values of each
RoundTripValues(type) ==
  IF type = TUint256 THEN {IntArg(x) : x \in RoundTripInts}
  ELSE IF type = TBool THEN {BoolArg(b) : b \in BOOLEAN}
  ELSE {StrArg(p \o a) : p \in {<< >>, S(<< "0", "x" >>)}, a \in RoundTripAddresses}

InitRoundTrip ==
  /\ pc = "start"
  /\ \E type \in {TUint256, TBool, TAddress} :
       /\ abi = FunctionOf(<< type >>, << Param(NoName, type) >>)
       /\ \E v \in RoundTripValues(type) : args = ArgsOf(<< v >>)
  /\ data = << >>
  /\ sent = << >>
  /\ resp = << >>
  /\ result = << >>
  /\ err = "nil"

\* the request is answered by a contract function that returns its argument:
\* the result is "0x" and the arguments region of the call data (the call
\* data without "0x" and the 8 characters of the selector)
Echo ==
  /\ pc = "encoded"
  /\ sent' = Append(sent, data)
  /\ pc' = "responded"
  /\ resp' = S(<< "0", "x" >>) \o SubSeq(data, 11, Len(data))
  /\ UNCHANGED <<abi, args, data, result, err>>

NextRoundTrip == Validate \/ Encode \/ Echo \/ Parse

SpecRoundTrip == InitRoundTrip /\ [][NextRoundTrip]_vars

(***************************************************************************)
(* parseResponse on the payloads a node may return                         *)
(***************************************************************************)
\* the most 32-byte words of an enumerated payload
MaxWords == 3

\* "hello" padded with zeros to 32 bytes, in hex
HelloWord ==
  EncodeToString(S(<< "h", "e", "l", "l", "o" >>) \o Repeat(0, 27))

\* the 32-byte words payloads are made of
PayloadWords ==
  {Word(0), Word(5), Word(32), Word(64), Word(256), HelloWord}

\* payloads of whole words, and those cut short by 1 or by 63 characters
WholePayloads == {Concat(ws) : ws \in SeqsUpTo(PayloadWords, MaxWords)}
CutPayloads ==
  {SubSeq(p, 1, Len(p) - k) : p \in {q \in WholePayloads : Len(q) > 0},
                               k \in {1, 63}}
Payloads == WholePayloads \cup CutPayloads

\* the output lists of the entries that are decoded
OutputTypes == {TUint256, TUint8, TBool, TAddress, TString, TBytes}
OutputLists ==
  {<< >>} \cup {<< Param(NoName, t) >> : t \in OutputTypes}
    \cup {<< Param(NoName, TBool), Param(NoName, TBool) >>}

InitDecode ==
  /\ pc = "responded"
  /\ abi \in {FunctionOf(<< >>, outs) : outs \in OutputLists}
  /\ args = << >>
  /\ data = << >>
  /\ sent = << >>
  /\ resp \in Payloads
  /\ result = << >>
  /\ err = "nil"

NextDecode == Parse

SpecDecode == InitDecode /\ [][NextDecode]_vars

(***************************************************************************)
(* MethodID on the entries of an ABI                                       *)
(***************************************************************************)
\* the entries whose method ID is asked for
SelectorTypes == {TAddress, TUint256, TString, TTuple, TUintArray}
SelectorOutputs == {<< >>, << Param(NoName, TBool) >>}
Mutabilities == {"view", "nonpayable"}
SelectorEntries ==
  {Entry(t, n, ins, outs, m) :
     t \in {KFunction, KEvent},
     n \in {S(<< "f" >>), S(<< "g", "e", "t" >>)},
     ins \in SeqsUpTo({Param(pn, ty) : pn \in ParamNames, ty \in SelectorTypes},
                      MaxInputs),
     outs \in SelectorOutputs,
     m \in Mutabilities}

InitSelector ==
  /\ pc = "start"
  /\ abi \in SelectorEntries
  /\ args = << >>
  /\ data = << >>
  /\ sent = << >>
  /\ resp = << >>
  /\ result = << >>
  /\ err = "nil"

\* methodID, err := abi.MethodID()
Select ==
  /\ pc = "start"
  /\ pc' = "done"
  /\ result' = MethodID(abi).val
  /\ err' = MethodID(abi).err
  /\ UNCHANGED <<abi, args, data, sent, resp>>

NextSelector == Select

SpecSelector == InitSelector /\ [][NextSelector]_vars

(***************************************************************************)
(* The claims                                                              *)
(***************************************************************************)
\* the characters 0-9 and a-f
LowerHexChars ==
  {Ord[ch] : ch \in {"0", "1", "2", "3", "4", "5", "6", "7", "8", "9",
                     "a", "b", "c", "d", "e", "f"}}
IsLowerHex(s) == \A i \in 1..Len(s) : s[i] \in LowerHexChars

\* name(type1,...,typeN): the input types in declaration order, a comma
\* before each but the first
CanonicalSignature(e) ==
  LET RECURSIVE types(_)
      types(i) == IF i = 0 THEN << >>
                  ELSE IF i = 1 THEN e.Inputs[1].Type
                  ELSE types(i - 1) \o << Ord[","] >> \o e.Inputs[i].Type
  IN e.Name \o << Ord["("] >> \o types(Len(e.Inputs)) \o << Ord[")"] >>

\* the function entries with the name and the ordered input types of e:
\* any parameter names, outputs and mutability
SameSignature(e) ==
  {Entry(KFunction, e.Name,
         [i \in 1..Len(e.Inputs) |-> Param(ns[i], e.Inputs[i].Type)], outs, m) :
     ns \in [1..Len(e.Inputs) -> ParamNames],
     outs \in SelectorOutputs,
     m \in Mutabilities}

\* C1: for a function entry MethodID returns, without error, 8 lowercase hex
\* characters that are the hex of the first 4 bytes of the hash of the
\* canonical signature, and every entry with the same name and the same
\* ordered input types gets the same ones.
C1_MethodID ==
  (pc = "done" /\ abi.Type = KFunction) =>
    /\ err = "nil"
    /\ Len(result) = 8
    /\ IsLowerHex(result)
    /\ DecodeString(result).bytes = SubSeq(Keccak256(CanonicalSignature(abi)), 1, 4)
    /\ \A e2 \in SameSignature(abi) : MethodID(e2) = [val |-> result, err |-> "nil"]

\* a function of two inputs whose method ID is also that of an entry with
\* other parameter names, outputs and mutability
C1_Witness ==
  /\ pc = "done"
  /\ abi.Type = KFunction
  /\ Len(abi.Inputs) = 2
  /\ abi.Inputs[1].Type # abi.Inputs[2].Type
  /\ Len(result) = 8
  /\ \E e2 \in SameSignature(abi) :
       /\ e2.Inputs[1].Name # abi.Inputs[1].Name
       /\ e2.Outputs # abi.Outputs
       /\ e2.StateMutability # abi.StateMutability
       /\ MethodID(e2).val = result

\* the errors validateInputs returns
ValidationErrors ==
  {"argument count mismatch", "missing argument for input",
   "invalid type for input: expected address string",
   "invalid type for input: expected *big.Int",
   "invalid type for input: expected bool",
   "invalid type for input: expected string",
   "unsupported input type"}

\* validateInputs returned nil: the call went on to encodeData
Accepted ==
  \/ pc \in {"validated", "encoded", "responded", "panicked"}
  \/ pc = "done" /\ err \notin ValidationErrors

\* the names of the declared inputs
DeclaredNames == {abi.Inputs[i].Name : i \in 1..Len(abi.Inputs)}

\* C4 as stated: validateInputs accepts a mapping only if it holds exactly one
\* value per declared input under that input's name: every key is the name of
\* a declared input and every declared input has a value of its own.
C4_ExactKeys ==
  Accepted =>
    /\ DOMAIN args = DeclaredNames
    /\ Cardinality(DOMAIN args) = Len(abi.Inputs)
    /\ Cardinality(DeclaredNames) = Len(abi.Inputs)

\* the runtime kind validateInputs asks of the value of a declared type
KindOf(type) ==
  IF type = TAddress \/ type = TString THEN "string"
  ELSE IF type = TBool THEN "bool"
  ELSE "*big.Int"

\* the call C5 is about: a wrong number of keys, an unexpected key, a missing
\* key, a value of the wrong runtime kind, or an entry that is no function
BadCall ==
  \/ Cardinality(DOMAIN args) # Len(abi.Inputs)
  \/ \E k \in DOMAIN args : k \notin DeclaredNames
  \/ \E n \in DeclaredNames : n \notin DOMAIN args
  \/ \E i \in 1..Len(abi.Inputs) :
       /\ abi.Inputs[i].Name \in DOMAIN args
       /\ abi.Inputs[i].Type \in {TAddress, TUint256, TBool, TString}
       /\ args[abi.Inputs[i].Name].kind # KindOf(abi.Inputs[i].Type)
  \/ abi.Type # KFunction

\* C5 as stated: for such a call ReadContract returns an error and an empty
\* result, and no request is ever posted.
C5_NoRequest ==
  BadCall =>
    /\ sent = << >>
    /\ pc = "done" => (err # "nil" /\ result = << >>)

\* the types the specification counts as supported
SupportedTypes == {TAddress, TUint256, TUint8, TBool, TString}

\* C6: an entry that declares an input of a type outside the supported set is
\* rejected by validateInputs whatever the mapping: the call ends with one of
\* validateInputs' errors and an empty result, encodeData is never reached,
\* no call data is produced and no request is posted.
C6_UnsupportedRejected ==
  (\E i \in 1..Len(abi.Inputs) : abi.Inputs[i].Type \notin SupportedTypes) =>
    /\ pc \in {"start", "done"}
    /\ data = << >>
    /\ sent = << >>
    /\ pc = "done" => (err \in ValidationErrors /\ result = << >>)

\* a function whose second input is of type bytes, called with a value of
\* its own for each input, is rejected for the type
C6_Witness ==
  /\ pc = "done"
  /\ abi.Type = KFunction
  /\ Len(abi.Inputs) = 2
  /\ abi.Inputs[1].Type = TBool
  /\ abi.Inputs[2].Type = TBytes
  /\ DOMAIN args = DeclaredNames
  /\ Cardinality(DOMAIN args) = 2
  /\ err = "unsupported input type"
  /\ data = << >>

\* the number a magnitude of at most 6 hex digits stands for
NatOf(x) ==
  LET RECURSIVE val(_)
      val(i) == IF i = 0 THEN 0 ELSE 16 * val(i - 1) + x.abs[i]
  IN val(Len(x.abs))

\* C7 as stated: an input of type uint8 is supported on the encode side. For
\* a function of one uint8 input, a value 0 <= v <= 255 is accepted by
\* validateInputs and encoded as "0x", the selector and one 32-byte word
\* holding v; a value v >= 256 ends the call with an integer-overflow error.
C7_Uint8Encoded ==
  (Len(abi.Inputs) = 1 /\ abi.Inputs[1].Type = TUint8 /\ ~args[NameAt(1)].int.neg) =>
    LET v == args[NameAt(1)].int
    IN IF Len(v.abs) <= 2
       THEN /\ pc # "start" => pc \in {"validated", "encoded"}
            /\ pc = "encoded" => data = S(<< "0", "x" >>) \o MethodID(abi).val \o Word(NatOf(v))
       ELSE pc # "start" => (pc = "done" /\ err = "integer overflow" /\ data = << >>)

\* the static values whose encoding is one 32-byte word: an address of 40
\* hex digits with or without "0x", a bool, an integer 0 <= v < 2^256
CanonicalStatic(input, arg) ==
  IF input.Type = TAddress
  THEN Len(TrimPrefix(arg.str, S(<< "0", "x" >>))) = 40
       /\ \A i \in 1..40 : fromHexChar(TrimPrefix(arg.str, S(<< "0", "x" >>))[i]) # -1
  ELSE IF input.Type = TUint256 THEN ~arg.int.neg /\ Len(arg.int.abs) <= 64
  ELSE TRUE

\* the tail entry of a string: its 32-byte length word, then its bytes padded
\* with zeros to a 32-byte boundary (as hex text)
TailOf(str) ==
  Word(Len(str)) \o EncodeToString(str \o Repeat(0, (32 - (Len(str) % 32)) % 32))

\* the arguments region of the head/tail layout: one word per input in
\* declaration order, the word of a string input holding 32 x (number of
\* inputs) plus the bytes of the tail entries of the string inputs before
\* it; then the tail entries in declaration order
LayoutOf(c, a) ==
  LET n == Len(c.Inputs)
      isStr(i) == c.Inputs[i].Type = TString
      tail(i) == IF isStr(i) THEN TailOf(a[c.Inputs[i].Name].str) ELSE << >>
      RECURSIVE before(_)
      before(i) == IF i = 1 THEN 0 ELSE before(i - 1) + (Len(tail(i - 1)) \div 2)
      head(i) == IF isStr(i) THEN Word(32 * n + before(i))
                 ELSE encodeInput(c.Inputs[i], a[c.Inputs[i].Name], n).val
  IN Concat([i \in 1..n |-> head(i)]) \o Concat([i \in 1..n |-> tail(i)])

\* C2 as stated, for static values whose encoding is one word: the output of
\* encodeData is "0x", the selector, the head region and the tail region of
\* the head/tail layout, for string inputs in any number and any position.
C2_HeadTailLayout ==
  (/\ pc = "encoded"
   /\ \A i \in 1..Len(abi.Inputs) :
        CanonicalStatic(abi.Inputs[i], args[abi.Inputs[i].Name])) =>
    data = S(<< "0", "x" >>) \o MethodID(abi).val \o LayoutOf(abi, args)

\* the text with its letters A-Z in lower case
ToLower(s) ==
  [i \in 1..Len(s) |-> IF s[i] >= Ord["A"] /\ s[i] <= Ord["Z"] THEN s[i] + 32 ELSE s[i]]

\* the decimal text of the number n
DecimalOf(n) ==
  LET RECURSIVE digits(_)
      digits(k) == IF k < 10 THEN << Ord["0"] + k >>
                   ELSE Append(digits(k \div 10), Ord["0"] + (k % 10))
  IN digits(n)

\* the decimal text of 2^256 - 1
MaxUint256Text ==
  S(<< "1", "1", "5", "7", "9", "2", "0", "8", "9", "2", "3", "7", "3", "1", "6", "1",
       "9", "5", "4", "2", "3", "5", "7", "0", "9", "8", "5", "0", "0", "8", "6", "8",
       "7", "9", "0", "7", "8", "5", "3", "2", "6", "9", "9", "8", "4", "6", "6", "5",
       "6", "4", "0", "5", "6", "4", "0", "3", "9", "4", "5", "7", "5", "8", "4", "0",
       "0", "7", "9", "1", "3", "1", "2", "9", "6", "3", "9", "9", "3", "5" >>)

\* the text the value of a static type comes back as: the decimal text of an
\* integer, true or false, "0x" and the 40 digits of an address
TextOf(type, arg) ==
  IF type = TUint256
  THEN IF arg.int = MaxUint256 THEN MaxUint256Text
       ELSE IF Len(arg.int.abs) <= 6 THEN DecimalOf(NatOf(arg.int))
       ELSE String10(arg.int)
  ELSE IF type = TBool
  THEN IF arg.bool THEN S(<< "t", "r", "u", "e" >>) ELSE S(<< "f", "a", "l", "s", "e" >>)
  ELSE S(<< "0", "x" >>) \o TrimPrefix(arg.str, S(<< "0", "x" >>))

\* C3: for a function of one input and one output of the same static type
\* (uint256, bool, address), parseResponse applied to the arguments region of
\* encodeData's output returns the value's text: the decimal text of an
\* integer 0 <= v < 2^256, true or false, and "0x" with the 40 hex digits of
\* an address given with or without "0x" (compared without regard to case).
C3_RoundTrip ==
  /\ pc # "panicked"
  /\ pc = "done" =>
       /\ err = "nil"
       /\ ToLower(result)
            = ToLower(TextOf(abi.Inputs[1].Type, args[abi.Inputs[1].Name]))
       /\ abi.Inputs[1].Type # TAddress =>
            result = TextOf(abi.Inputs[1].Type, args[abi.Inputs[1].Name])

\* an address of both cases given with "0x" has come back
C3_Witness ==
  /\ pc = "done"
  /\ abi.Inputs[1].Type = TAddress
  /\ abi.Outputs[1].Type = TAddress
  /\ args[NameAt(1)].str = S(<< "0", "x", "F", "a" >>) \o SubSeq(TestAddress, 3, 40)
  /\ resp = S(<< "0", "x" >>) \o SubSeq(data, 11, Len(data))
  /\ result = args[NameAt(1)].str

\* the payload parseResponse is given: the result without its "0x"
Payload == TrimPrefix(resp, S(<< "0", "x" >>))

\* parseResponse has returned or panicked on an entry with one output of type
Decoded(type) ==
  /\ pc \in {"done", "panicked"}
  /\ Len(abi.Outputs) = 1
  /\ abi.Outputs[1].Type = type

\* the unsigned integer the hex text holds
WordValue(text) == MkInt(FALSE, [i \in 1..Len(text) |-> fromHexChar(text[i])])

\* C8 as stated: for a string output and a payload of at least 128 hex
\* characters whose second word holds the length L, parseResponse returns the
\* L bytes that start at byte 64 of the payload when 64 + L is within the
\* payload, and returns an error, with no crash and no value, when L would
\* read past the payload.
C8_StringDecode ==
  (Decoded(TString) /\ Len(Payload) >= 128) =>
    LET L == WordValue(SubSeq(Payload, 65, 128))
    IN IF Len(L.abs) <= 6 /\ 2 * (64 + NatOf(L)) <= Len(Payload)
       THEN /\ pc = "done"
            /\ err = "nil"
            /\ result = DecodeString(SubSeq(Payload, 129, 128 + 2 * NatOf(L))).bytes
       ELSE /\ pc = "done"
            /\ err # "nil"
            /\ result = << >>

\* C9 as stated: parseResponse returns an error and no value for a fixed-size
\* output type (uint256, uint8, bool, address) when the payload is shorter
\* than 64 hex characters, the empty payload included, and for a string
\* output when the payload is shorter than 128 hex characters.
C9_ShortPayload ==
  /\ \A type \in {TUint256, TUint8, TBool, TAddress} :
       (Decoded(type) /\ Len(Payload) < 64) =>
         (pc = "done" /\ err # "nil" /\ result = << >>)
  /\ (Decoded(TString) /\ Len(Payload) < 128) =>
       (pc = "done" /\ err # "nil" /\ result = << >>)

\* C10 as stated: for a uint8 output and a payload of at least 64 hex
\* characters, parseResponse reads the first 32-byte word only: it returns
\* the decimal text of the integer in the first 64 characters when that is at
\* most 255, whatever follows, and an overflow error when it is above 255.
C10_Uint8FirstWord ==
  (Decoded(TUint8) /\ Len(Payload) >= 64) =>
    LET first == WordValue(SubSeq(Payload, 1, 64))
    IN /\ pc = "done"
       /\ IF Len(first.abs) <= 2
          THEN err = "nil" /\ result = DecimalOf(NatOf(first))
          ELSE err = "uint8 overflow" /\ result = << >>

\* the arguments region of the call data: what follows "0x" and the 8
\* characters of the selector
Arguments == SubSeq(data, 11, Len(data))

\* the k-th 32-byte slot of the arguments region (64 hex characters)
SlotAt(k) == SubSeq(Arguments, 64 * (k - 1) + 1, 64 * k)

\* the entry has exactly one string input and it is the last declared input
OneStringLast ==
  /\ Len(abi.Inputs) >= 1
  /\ \A i \in 1..Len(abi.Inputs) :
       (abi.Inputs[i].Type = TString) <=> (i = Len(abi.Inputs))

\* the slot of a static value: the 40 digits of an address after 24 zeros,
\* the hex digits of an integer or the digit of a bool after zeros
StaticSlot(input, arg) ==
  IF input.Type = TAddress
  THEN Repeat(Ord["0"], 24) \o TrimPrefix(arg.str, S(<< "0", "x" >>))
  ELSE IF input.Type = TUint256
  THEN Repeat(Ord["0"], 64 - Len(Text16(arg.int))) \o Text16(arg.int)
  ELSE IF arg.bool THEN Word(1) ELSE Word(0)

\* C11 as stated: for an entry whose only string input is its last input,
\* slot n of the arguments region (n the number of inputs) holds the offset
\* 32 x n, the 32-byte word at byte 32 x n of the region holds the length of
\* the string, the bytes of the string follow it padded with zeros on the
\* right to a multiple of 32 bytes (none for the empty string) and end the
\* region, and every static input before the string has its own slot, in
\* declaration order.
C11_SingleStringLast ==
  (pc = "encoded" /\ OneStringLast) =>
    LET n == Len(abi.Inputs)
        str == args[abi.Inputs[n].Name].str
        padded == str \o Repeat(0, (32 - (Len(str) % 32)) % 32)
    IN /\ Len(Arguments) = 64 * (n + 1) + 2 * Len(padded)
       /\ SlotAt(n) = Word(32 * n)
       /\ SlotAt(n + 1) = Word(Len(str))
       /\ SubSeq(Arguments, 64 * (n + 1) + 1, Len(Arguments)) = EncodeToString(padded)
       /\ \A i \in 1..(n - 1) :
            CanonicalStatic(abi.Inputs[i], args[abi.Inputs[i].Name]) =>
              SlotAt(i) = StaticSlot(abi.Inputs[i], args[abi.Inputs[i].Name])

\* every input of the entry is of a static type: address, uint256 or bool
AllStatic ==
  \A i \in 1..Len(abi.Inputs) : abi.Inputs[i].Type \in {TAddress, TUint256, TBool}

\* C12 as stated: for a function of n static inputs and any values that
\* validateInputs accepts (a string of any length, case and content as an
\* address, an integer of any sign and size as a uint256), encodeData returns
\* "0x" followed by exactly 8 + 64 x n characters, all of them lowercase hex
\* digits.
C12_WellFormedData ==
  (pc = "encoded" /\ AllStatic) =>
    /\ Len(data) = 2 + 8 + 64 * Len(abi.Inputs)
    /\ SubSeq(data, 1, 2) = S(<< "0", "x" >>)
    /\ IsLowerHex(SubSeq(data, 3, Len(data)))

====
